---- MODULE Spec2Model ----
(***************************************************************************)
(* A model of the swap-pool library: SwapPool (pool.rs), SwapHandle        *)
(* (handle.rs), SwapEntity (entity.rs), InplaceCell (inplace_cell.rs) and  *)
(* the two SwapManager policies (manager.rs).                              *)
(*                                                                         *)
(* An Option<T> is a sequence: <<>> is None, <<v>> is Some(v).  A file is  *)
(* an Option of its bytes: <<>> when the path does not exist.  Sizes are   *)
(* in abstract units of memory.  One action is one call of the public API, *)
(* made by a single thread, with every call it makes inside it.            *)
(***************************************************************************)
EXTENDS Integers, Sequences, FiniteSets, TLC

\* ------------------------------------------------------------------ bounds

\* Entities are numbered in spawn order; at most MaxEntities are ever spawned.
MaxEntities == 2
\* Payloads are 1..MaxValue.
MaxValue == 2
\* The pool's budget is drawn from 0..MaxBudget at construction.
MaxBudget == 2
\* Ranks (and the wall clock of the last-use policy) stay within 0..MaxRank.
MaxRank == 2
\* handle.free is called directly with 0..MaxFree.
MaxFree == 2
\* The threads that share one InplaceCell.
MaxThreads == 2

Ids == 1 .. MaxEntities
Values == 1 .. MaxValue
Names == {"x", "y"}
NoPath == ""

\* ------------------------------------------------------------------- state

VARIABLES
    thread_safe,  \* SwapPool.thread_safe, handed to every InplaceCell
    manager,      \* which SwapManager the handle owns
    allocated,    \* SwapHandle.allocated, the budget
    transformer,  \* SwapHandle.transformer: which SwapTransformer the handle owns
    clock,        \* SystemTime::now() in whole seconds
    registry,     \* SwapHandle.entities: Vec<Weak<SwapEntity>>
    alive,        \* the entities whose Arc strong count is > 0
    path,         \* SwapEntity.path of every spawned entity
    value,        \* SwapEntity.value: the cell's Option<T>
    files,        \* the swap folder: path -> Option<bytes>
    ranks,        \* the manager's HashMap<uuid, rank>
    ic,           \* one InplaceCell<T> shared by threads, and where each thread is in it
    race,         \* a flush() and a value() that run together on entity 1: where each is
    push,         \* two threads inside push_entity or upgrade_entity: where each is
    last          \* the last call: its name, arguments, result and the state before it

vars == <<thread_safe, manager, allocated, transformer, clock, registry, alive,
          path, value, files, ranks, ic, race, push, last>>

\* ------------------------------------------------------------ pure helpers

\* None and Some(v) of Option<T>.
None == <<>>
Some(v) == <<v>>

\* usize::checked_sub(..).unwrap_or_default()
SatSub(a, b) == IF a > b THEN a - b ELSE 0

\* T::size_of of the caller's payload type: payload v costs v units.
SizeOfValue(v) == v

\* TryInto<Vec<u8>> and TryFrom<Vec<u8>> of the payload type.
Serialize(v) == <<"bytes", v>>
Deserialize(b) == b[2]

\* SwapTransformer::forward and ::backward of the handle's transformer t:
\* SwapIdentityTransformer returns the bytes as they are, and any other
\* transformer (a compressor, say) returns other bytes, which its backward
\* turns back.
Transformers == {"Identity", "Custom"}
Forward(t, b) == IF t = "Identity" THEN b ELSE <<"forward", b>>
Backward(t, b) == IF t = "Identity" THEN b ELSE b[2]

\* uuid::get(&path): the hash of the path, taken to be free of collisions.
Uuid(p) == p

\* What an entity costs beside its payload: size_of_val of the cell, of the
\* Option inside it and of the handle pointer, plus the path's capacity.
EntityStack == 1

\* <SwapEntity as SizeOf>::size_of with `val` as the cells' contents.
EntitySize(val, e) ==
    IF val[e] = None THEN EntityStack ELSE EntityStack + SizeOfValue(val[e][1])

RECURSIVE SumSizes(_, _)
SumSizes(val, es) ==
    IF es = <<>> THEN 0
    ELSE EntitySize(val, Head(es)) + SumSizes(val, Tail(es))

IsLive(e) == e \in alive

\* A used() that forgets the is_hot filter.
UsedInCountsCold(val, reg, live) ==
    LET upgrades(e) == e \in live
    IN  SumSizes(val, SelectSeq(reg, upgrades))

\* SwapHandle::used over the registry reg, with `live` the entities whose weak
\* reference upgrades and `val` the cells' contents.
UsedIn(val, reg, live) ==
    LET hot(e) == e \in live /\ val[e] # None
    IN  SumSizes(val, SelectSeq(reg, hot))

\* SwapHandle::used while a call runs: the registry is the state's.
UsedOf(val) == UsedIn(val, registry, alive)

\* SwapHandle::available
AvailableOf(val) == SatSub(allocated, UsedOf(val))

\* ------------------------------------------------------------ environment

\* What the environment may make fail during one call: one kind of step on one
\* path (a serialization, a file write, a file read, a deserialization or a
\* file removal), or nothing.
NoFault == <<"None", NoPath>>
LivePaths == {path[e] : e \in alive}
\* The faults that can strike a flush, a load from the file, a file removal.
FlushFaults == {"Serialize", "Write"} \X LivePaths
LoadFaults(e) == {"Read", "Deserialize"} \X {path[e]}
RemoveFaults(e) == {"Remove"} \X {path[e]}

\* ------------------------------------------------------------ InplaceCell

\* InplaceCell::update_result, lines 85-89: what the cell holds while the
\* updater runs on the taken value: a clone of it in a thread safe cell,
\* Default::default() otherwise.  An updater that fails leaves the cell so.
CellTaken(old) == IF thread_safe THEN old ELSE None

\* The cell shared by the threads 1..MaxThreads: RefCell<T> with T = 0..MaxValue
\* and T::default() = 0.  Each thread is idle, or inside get_copy after its
\* take ("copy"), or inside update_result after its take ("taken") or after
\* its if self.thread_safe { .. } ("cloned"); local is the value it took, and
\* seen the value its last get_ref or get_copy gave it, if any.
Threads == 1 .. MaxThreads
Default == 0
NewCell(v) ==
    [cell |-> v,
     pc |-> [t \in Threads |-> "idle"],
     local |-> [t \in Threads |-> Default],
     seen |-> [t \in Threads |-> <<>>]]

\* ------------------------------------------------------------- SwapManager

\* SwapManager::rank of both managers.
Rank(rk, u) == rk[u]

\* SwapManager::upgrade of both managers: the rank the call returns.
UpgradeReturn(rk, u) ==
    IF manager = "UpgradeCount" THEN rk[u] + 1 ELSE clock

\* An upgrade that returns the new rank and does not store it.
UpgradeForgets(rk, u) ==
    rk

\* SwapManager::upgrade of both managers: the table after the call.
Upgrade(rk, u) ==
    IF manager = "UpgradeCount"
    THEN [rk EXCEPT ![u] = rk[u] + 1]
    ELSE [rk EXCEPT ![u] = clock]

\* The model keeps the counters of SwapUpgradeCountManager within MaxRank.
CanUpgrade(u) == manager = "UpgradeCount" => ranks[u] < MaxRank

\* ----------------------------------------------------- SwapEntity, part 1

\* The memory a call works on: the cells and the swap folder.
Mem == [value |-> value, files |-> files]

\* What a call returns, with the memory it leaves: Ok(..) or Err(kind).  flag
\* is the bool of an Ok(bool), ret the value of an Ok(T); injected tells an
\* error the environment made from one the call ran into by itself.
Ok(m) ==
    [m |-> m, ok |-> TRUE, err |-> "", injected |-> FALSE, flag |-> TRUE,
     ret |-> None]
Err(m, kind) ==
    [m |-> m, ok |-> FALSE, err |-> kind, injected |-> TRUE, flag |-> FALSE,
     ret |-> None]
\* std::fs::read of a path that does not exist.
NotFound(m) == [Err(m, "Io") EXCEPT !.injected = FALSE]

\* std::fs::read(&self.path) followed by T::try_from: ret is Some(value read).
ReadValue(m, e, fault) ==
    IF m.files[path[e]] = None THEN NotFound(m)
    ELSE IF fault = <<"Read", path[e]>> THEN Err(m, "Io")
    ELSE IF fault = <<"Deserialize", path[e]>> THEN Err(m, "Deserialize")
    ELSE [Ok(m) EXCEPT !.ret = Some(Deserialize(m.files[path[e]][1]))]

\* A flush that empties the cell and writes no file.
FlushEntityWritesNothing(m, e, fault) ==
    Ok([m EXCEPT !.value[e] = None])

\* A flush that writes a file whatever the cell holds: the payload's bytes, or
\* those of T::default() when the cell is empty.
FlushEntityAlwaysWrites(m, e, fault) ==
    LET old == m.value[e]
        bytes == IF old = None THEN Serialize(0) ELSE Serialize(old[1])
    IN  Ok([value |-> [m.value EXCEPT ![e] = None],
            files |-> [m.files EXCEPT ![path[e]] = Some(bytes)]])

\* SwapEntity::flush
FlushEntity(m, e, fault) ==
    LET old == m.value[e]
        during == [m EXCEPT !.value[e] = CellTaken(old)]
    IN  IF old = None THEN Ok(m)
        ELSE IF fault = <<"Serialize", path[e]>> THEN Err(during, "Serialize")
        ELSE IF fault = <<"Write", path[e]>> THEN Err(during, "Io")
        ELSE Ok([value |-> [m.value EXCEPT ![e] = None],
                 files |-> [m.files EXCEPT ![path[e]] = Some(Serialize(old[1]))]])

\* ---------------------------------------------------------- SwapHandle

\* entities.sort_by(|a, b| b.0.cmp(&a.0)): a stable sort, ranks descending.
RECURSIVE InsertByRank(_, _, _)
InsertByRank(rk, sorted, e) ==
    IF sorted = <<>> THEN <<e>>
    ELSE IF Rank(rk, Uuid(path[Head(sorted)])) >= Rank(rk, Uuid(path[e]))
    THEN <<Head(sorted)>> \o InsertByRank(rk, Tail(sorted), e)
    ELSE <<e>> \o sorted

RECURSIVE SortByRank(_, _, _)
SortByRank(rk, sorted, rest) ==
    IF rest = <<>> THEN sorted
    ELSE SortByRank(rk, InsertByRank(rk, sorted, Head(rest)), Tail(rest))

\* The upgraded weak references of the registry, in its order.
LiveEntities == SelectSeq(registry, IsLive)

\* The loop of SwapHandle::free: pop the last entity, flush it if it is hot.
RECURSIVE FreeLoop(_, _, _, _)
FreeLoop(m, entities, memory, fault) ==
    IF memory = 0 THEN Ok(m)
    ELSE IF entities = <<>> THEN [Ok(m) EXCEPT !.flag = FALSE]
    ELSE LET e == entities[Len(entities)]
             rest == SubSeq(entities, 1, Len(entities) - 1)
         IN  IF m.value[e] # None
             THEN LET size == EntitySize(m.value, e)
                      f == FlushEntity(m, e, fault)
                  IN  IF ~f.ok THEN f
                      ELSE FreeLoop(f.m, rest,
                               SatSub(memory, size - EntitySize(f.m.value, e)), fault)
             ELSE FreeLoop(m, rest, memory, fault)

\* A free that reports success without flushing anything.
FreeReclaimsNothing(m, rk, memory, fault) ==
    Ok(m)

\* A free that sorts the entities by ascending rank, and so flushes the
\* highest ranked first.
FreeHighestFirst(m, rk, memory, fault) ==
    FreeLoop(m, SortByRank([u \in Names |-> MaxRank - rk[u]], <<>>, LiveEntities),
             memory, fault)

\* A free that gives up at once: false without a flush whenever memory is asked.
FreeGivesUp(m, rk, memory, fault) ==
    [Ok(m) EXCEPT !.flag = (memory = 0)]

\* A free that never finds it has reclaimed enough: it flushes every entity.
FreeNeverStops(m, rk, memory, fault) ==
    FreeLoop(m, SortByRank(rk, <<>>, LiveEntities),
             memory + MaxEntities * MaxValue + 1, fault)

\* SwapHandle::free
Free(m, rk, memory, fault) ==
    FreeLoop(m, SortByRank(rk, <<>>, LiveEntities), memory, fault)

\* SwapHandle::flush
RECURSIVE FlushAll(_, _, _)
FlushAll(m, entities, fault) ==
    IF entities = <<>> THEN Ok(m)
    ELSE LET f == FlushEntity(m, Head(entities), fault)
         IN  IF ~f.ok THEN f ELSE FlushAll(f.m, Tail(entities), fault)

\* ----------------------------------------------------- SwapEntity, part 2

\* A create that compares the value with the whole budget, not with what is
\* left of it.
CreateEntityIgnoresUsed(m, e, p, v, fault) ==
    IF SizeOfValue(v) > allocated
    THEN Ok([value |-> [m.value EXCEPT ![e] = None],
             files |-> [m.files EXCEPT ![p] = Some(Serialize(v))]])
    ELSE Ok([m EXCEPT !.value[e] = Some(v)])

\* A create that makes room for the value: it frees what is missing and keeps
\* the value in memory when that succeeds.
CreateEntityEvicting(m, e, p, v, fault) ==
    LET f == Free(m, ranks, SatSub(SizeOfValue(v), AvailableOf(m.value)), fault)
    IN  IF f.ok /\ f.flag
        THEN Ok([f.m EXCEPT !.value[e] = Some(v)])
        ELSE Ok([value |-> [m.value EXCEPT ![e] = None],
                 files |-> [m.files EXCEPT ![p] = Some(Serialize(v))]])

\* SwapEntity::create: the cell and the folder after it, for the next entity e
\* on path p.
CreateEntity(m, e, p, v, fault) ==
    IF SizeOfValue(v) > AvailableOf(m.value)
    THEN IF fault = <<"Serialize", p>> THEN Err(m, "Serialize")
         ELSE IF fault = <<"Write", p>> THEN Err(m, "Io")
         ELSE Ok([value |-> [m.value EXCEPT ![e] = None],
                  files |-> [m.files EXCEPT ![p] = Some(Serialize(v))]])
    ELSE Ok([m EXCEPT !.value[e] = Some(v)])

\* SwapEntity::value, after its self.upgrade(): rk is the upgraded table.
ValueEntity(m, rk, e, fault) ==
    LET old == m.value[e]
        during == [m EXCEPT !.value[e] = CellTaken(old)]
        load == IF old # None THEN [Ok(during) EXCEPT !.ret = old]
                ELSE ReadValue(during, e, fault)
        raw_value == load.ret[1]
        free == SatSub(SizeOfValue(raw_value), AvailableOf(during.value))
        f == Free(during, rk, free, fault)
    IN  IF ~load.ok THEN load
        ELSE IF free = 0
        THEN [Ok([during EXCEPT !.value[e] = Some(raw_value)])
                 EXCEPT !.ret = Some(raw_value)]
        ELSE IF ~f.ok THEN f
        ELSE [Ok([f.m EXCEPT !.value[e] = IF f.flag THEN Some(raw_value) ELSE None])
                 EXCEPT !.ret = Some(raw_value)]

\* SwapEntity::value_unallocate
ValueUnallocateEntity(m, e, fault) ==
    LET old == m.value[e]
        during == [m EXCEPT !.value[e] = CellTaken(old)]
        load == ReadValue(during, e, fault)
    IN  IF old # None
        THEN [Ok([m EXCEPT !.value[e] = None]) EXCEPT !.ret = old]
        ELSE IF ~load.ok THEN load
        ELSE [Ok(m) EXCEPT !.ret = load.ret]

\* SwapEntity::value_allocate
ValueAllocateEntity(m, e, fault) ==
    LET old == m.value[e]
        during == [m EXCEPT !.value[e] = CellTaken(old)]
        load == ReadValue(during, e, fault)
    IN  IF old # None THEN [Ok(m) EXCEPT !.ret = old]
        ELSE IF ~load.ok THEN load
        ELSE [Ok([m EXCEPT !.value[e] = load.ret]) EXCEPT !.ret = load.ret]

\* The end of update and of replace: if self.path.exists() { remove_file }
RemoveFile(m, e, fault) ==
    IF m.files[path[e]] = None THEN Ok(m)
    ELSE IF fault = <<"Remove", path[e]>> THEN Err(m, "Io")
    ELSE Ok([m EXCEPT !.files[path[e]] = None])

\* An update that evicts nothing: it stores the value if it fits beside what
\* is hot, and gives up otherwise, leaving the pool as it found it.
UpdateEntityEvictsNothing(m, rk, e, v, fault) ==
    IF SizeOfValue(v) <= AvailableOf(m.value) + EntitySize(m.value, e)
    THEN RemoveFile([m EXCEPT !.value[e] = Some(v)], e, fault)
    ELSE [Ok(m) EXCEPT !.flag = FALSE]

\* SwapEntity::update
UpdateEntity(m, rk, e, v, fault) ==
    LET flushed == FlushEntity(m, e, fault)
        free == SatSub(SizeOfValue(v),
                       AvailableOf(flushed.m.value) + EntitySize(flushed.m.value, e))
        f == Free(flushed.m, rk, free, fault)
        freed == IF free = 0 THEN flushed.m ELSE f.m
    IN  IF ~flushed.ok THEN flushed
        ELSE IF free # 0 /\ ~f.ok THEN f
        ELSE IF free = 0 \/ f.flag
        THEN RemoveFile([freed EXCEPT !.value[e] = Some(v)], e, fault)
        ELSE [Ok(freed) EXCEPT !.flag = FALSE]

\* SwapEntity::replace
ReplaceEntity(m, e, v, fault) ==
    RemoveFile([m EXCEPT !.value[e] = Some(v)], e, fault)

\* A drop that leaves the file where it is.
DropEntityKeepsFile(m, e, fault) ==
    Ok([m EXCEPT !.value[e] = None])

\* <SwapEntity as Drop>::drop: the cell is gone and a failed removal is
\* ignored (let _ = ..), so the drop itself never fails; injected tells
\* whether the removal did.
DropEntity(m, e, fault) ==
    LET r == RemoveFile(m, e, fault)
    IN  [Ok([value |-> [m.value EXCEPT ![e] = None], files |-> r.m.files])
            EXCEPT !.injected = r.injected]


\* ----------------------------------------------------------------- calls

\* The state a call starts from.
Snapshot ==
    [value |-> value, files |-> files, ranks |-> ranks, alive |-> alive,
     registry |-> registry]

\* The calls made on an entity since it was created, while they are the start
\* of create, flush, value: what the caller has done with entity e of value v.
NoTrail == [e |-> 0, v |-> 0, ops |-> <<>>]
Trail(op, e, v, r) ==
    IF op = "spawn_named" /\ r.ok THEN [e |-> e, v |-> v, ops |-> <<"create">>]
    ELSE IF op = "flush" /\ r.ok /\ last.trail.e = e /\ last.trail.ops = <<"create">>
    THEN [last.trail EXCEPT !.ops = <<"create", "flush">>]
    ELSE IF op = "value" /\ last.trail.e = e /\ last.trail.ops = <<"create", "flush">>
    THEN [last.trail EXCEPT !.ops = <<"create", "flush", "value">>]
    ELSE NoTrail

\* The record of a call that has just returned: op(e, v or n) returned r from
\* the state pre.
Call(op, e, v, n, r) ==
    [op |-> op, e |-> e, v |-> v, n |-> n,
     ok |-> r.ok, err |-> r.err, injected |-> r.injected, flag |-> r.flag,
     ret |-> r.ret, pre |-> Snapshot, trail |-> Trail(op, e, v, r)]

\* No call has returned since the caller took the last result.
NoSnapshot ==
    [value |-> [e \in Ids |-> None], files |-> [p \in Names |-> None],
     ranks |-> [p \in Names |-> 0], alive |-> {}, registry |-> <<>>]
NoCall ==
    [op |-> "idle", e |-> 0, v |-> 0, n |-> 0,
     ok |-> TRUE, err |-> "", injected |-> FALSE, flag |-> TRUE,
     ret |-> None, pre |-> NoSnapshot, trail |-> NoTrail]
Idle == last.op = "idle"

Spawned == {e \in Ids : path[e] # NoPath}
NextId == Cardinality(Spawned) + 1

\* A sound caller (sound = TRUE) names no two live entities alike, and its
\* environment never fails; any caller (sound = FALSE) may do both.
Env(sound, faults) == IF sound THEN {NoFault} ELSE {NoFault} \cup faults
FreeNames(sound) == IF sound THEN Names \ LivePaths ELSE Names

TypeOK ==
    /\ thread_safe \in BOOLEAN
    /\ manager \in {"LastUse", "UpgradeCount"}
    /\ allocated \in 0 .. MaxBudget
    /\ transformer \in Transformers
    /\ clock \in 1 .. MaxRank
    /\ alive \subseteq Spawned
    /\ \A i \in 1 .. Len(registry) : registry[i] \in Spawned
    /\ \A e \in Ids : value[e] = None \/ value[e][1] \in Values
    /\ \A p \in Names : files[p] = None \/ files[p][1][2] \in Values
    /\ \A p \in Names : ranks[p] \in 0 .. MaxRank
    /\ ic.cell \in 0 .. MaxValue
    /\ \A t \in Threads : ic.pc[t] \in {"idle", "copy", "taken", "cloned"}
    /\ race.on \in BOOLEAN
    /\ race.f \in {"start", "taken", "cloned", "written", "done"}
    /\ race.v \in {"start", "upgraded", "taken", "cloned", "loaded", "admitted", "done"}
    /\ race.raw \in 0 .. MaxValue
    /\ push.on \in BOOLEAN
    /\ push.job \in {"push", "upgrade"}
    /\ \A t \in Threads :
          push.pc[t] \in {"start", "reg_taken", "reg_cloned", "reg_done",
                          "rank_taken", "rank_cloned", "done"}

\* Where a flush() and a value() called together on one entity are: each is
\* "start", at a step of its update_result, or "done".  fl and vl are the
\* closures' taken values, raw is value()'s raw_value, ok and ret what value()
\* returned, and init the cell and the folder the two calls started from.
NoRace ==
    [on |-> FALSE, f |-> "done", v |-> "done", fl |-> None, vl |-> None,
     raw |-> 0, ok |-> TRUE, ret |-> None,
     init |-> [value |-> [e \in Ids |-> None], files |-> [p \in Names |-> None]]]

\* Where two threads that call into the handle together are.  job is what both
\* call: push_entity, each with an entity of its own, or upgrade_entity with one
\* uuid.  pc is each thread's place in the update_result of the registry cell
\* ("reg_..") and of the manager's rank table ("rank_.."), and reg and rk the
\* registry and the rank table it took.
NoPush ==
    [on |-> FALSE, job |-> "push",
     pc |-> [t \in Threads |-> "done"],
     reg |-> [t \in Threads |-> <<>>],
     rk |-> [t \in Threads |-> [u \in Names |-> 0]]]

\* SwapPoolBuilder::build: an empty pool over an empty folder, whatever the
\* builder was given.
Built ==
    /\ thread_safe \in BOOLEAN
    /\ manager \in {"LastUse", "UpgradeCount"}
    /\ allocated \in 0 .. MaxBudget
    /\ clock = 1
    /\ registry = <<>>
    /\ alive = {}
    /\ path = [e \in Ids |-> NoPath]
    /\ value = [e \in Ids |-> None]
    /\ files = [p \in Names |-> None]
    /\ ranks = [p \in Names |-> 0]
    /\ last = NoCall

\* A pool built with the builder's default transformer, SwapIdentityTransformer.
Init ==
    Built /\ transformer = "Identity" /\ ic = NewCell(1) /\ race = NoRace
          /\ push = NoPush

\* A pool built after with_transformer, with any transformer.
InitTransformer ==
    Built /\ transformer \in Transformers /\ ic = NewCell(1) /\ race = NoRace
          /\ push = NoPush

Config == <<thread_safe, manager, allocated, transformer>>

\* The caller takes the result of the call and goes on.
Return ==
    /\ ~Idle
    /\ last' = [NoCall EXCEPT !.trail = last.trail]
    /\ UNCHANGED <<Config, ic, race, push, clock, registry, alive, path, value, files, ranks>>

\* A second of wall-clock time passes (read by SwapLastUseManager only).
Tick ==
    /\ Idle
    /\ manager = "LastUse"
    /\ clock < MaxRank
    /\ clock' = clock + 1
    /\ UNCHANGED <<Config, ic, race, push, registry, alive, path, value, files, ranks, last>>

\* SwapPool::spawn_named: SwapEntity::create, then SwapHandle::push_entity.
SpawnNamed(sound) ==
    \E name \in FreeNames(sound), v \in Values :
    \E fault \in Env(sound, {"Serialize", "Write"} \X {name}) :
        LET e == NextId
            r == CreateEntity(Mem, e, name, v, fault)
        IN  /\ Idle
            /\ e \in Ids
            /\ CanUpgrade(Uuid(name))
            /\ value' = r.m.value
            /\ files' = r.m.files
            /\ IF r.ok
               THEN /\ path' = [path EXCEPT ![e] = name]
                    /\ registry' = Append(registry, e)
                    /\ alive' = alive \cup {e}
                    /\ ranks' = Upgrade(ranks, Uuid(name))
               ELSE UNCHANGED <<path, registry, alive, ranks>>
            /\ last' = Call("spawn_named", e, v, 0, r)
            /\ UNCHANGED <<Config, ic, race, push, clock>>

\* format!("{:x}.swap", uuid::get(&value)): the file name SwapPool::spawn gives
\* a value, a function of the value alone.
NameOf(v) == IF v % 2 = 1 THEN "x" ELSE "y"

\* SwapPool::spawn: spawn_named under the name derived from the value, in an
\* environment that never fails.
Spawn ==
    \E v \in Values :
        LET e == NextId
            name == NameOf(v)
            r == CreateEntity(Mem, e, name, v, NoFault)
        IN  /\ Idle
            /\ e \in Ids
            /\ CanUpgrade(Uuid(name))
            /\ value' = r.m.value
            /\ files' = r.m.files
            /\ path' = [path EXCEPT ![e] = name]
            /\ registry' = Append(registry, e)
            /\ alive' = alive \cup {e}
            /\ ranks' = Upgrade(ranks, Uuid(name))
            /\ last' = Call("spawn", e, v, 0, r)
            /\ UNCHANGED <<Config, ic, race, push, clock>>

\* SwapEntity::value
Value(sound) ==
    \E e \in alive : \E fault \in Env(sound, LoadFaults(e) \cup FlushFaults) :
        LET rk == Upgrade(ranks, Uuid(path[e]))
            r == ValueEntity(Mem, rk, e, fault)
        IN  /\ Idle
            /\ CanUpgrade(Uuid(path[e]))
            /\ ranks' = rk
            /\ value' = r.m.value
            /\ files' = r.m.files
            /\ last' = Call("value", e, 0, 0, r)
            /\ UNCHANGED <<Config, ic, race, push, clock, registry, alive, path>>

\* SwapEntity::value_unallocate
ValueUnallocate(sound) ==
    \E e \in alive : \E fault \in Env(sound, LoadFaults(e)) :
        LET r == ValueUnallocateEntity(Mem, e, fault)
        IN  /\ Idle
            /\ value' = r.m.value
            /\ files' = r.m.files
            /\ last' = Call("value_unallocate", e, 0, 0, r)
            /\ UNCHANGED <<Config, ic, race, push, clock, registry, alive, path, ranks>>

\* SwapEntity::value_allocate
ValueAllocate(sound) ==
    \E e \in alive : \E fault \in Env(sound, LoadFaults(e)) :
        LET r == ValueAllocateEntity(Mem, e, fault)
        IN  /\ Idle
            /\ CanUpgrade(Uuid(path[e]))
            /\ ranks' = Upgrade(ranks, Uuid(path[e]))
            /\ value' = r.m.value
            /\ files' = r.m.files
            /\ last' = Call("value_allocate", e, 0, 0, r)
            /\ UNCHANGED <<Config, ic, race, push, clock, registry, alive, path>>

\* A payload update can never admit: larger than the largest budget and the
\* footprint of the updated entity together.
TooBig == MaxBudget + EntityStack + 1

\* SwapEntity::update, with a value an entity may hold or with one too big for
\* any pool.
Update(sound) ==
    \E e \in alive, v \in Values \cup {TooBig} :
    \E fault \in Env(sound, FlushFaults \cup RemoveFaults(e)) :
        LET r == UpdateEntity(Mem, ranks, e, v, fault)
        IN  /\ Idle
            /\ value' = r.m.value
            /\ files' = r.m.files
            /\ last' = Call("update", e, v, 0, r)
            /\ UNCHANGED <<Config, ic, race, push, clock, registry, alive, path, ranks>>

\* SwapEntity::replace
Replace(sound) ==
    \E e \in alive, v \in Values : \E fault \in Env(sound, RemoveFaults(e)) :
        LET r == ReplaceEntity(Mem, e, v, fault)
        IN  /\ Idle
            /\ value' = r.m.value
            /\ files' = r.m.files
            /\ last' = Call("replace", e, v, 0, r)
            /\ UNCHANGED <<Config, ic, race, push, clock, registry, alive, path, ranks>>

\* SwapEntity::flush
Flush(sound) ==
    \E e \in alive : \E fault \in Env(sound, {"Serialize", "Write"} \X {path[e]}) :
        LET r == FlushEntity(Mem, e, fault)
        IN  /\ Idle
            /\ value' = r.m.value
            /\ files' = r.m.files
            /\ last' = Call("flush", e, 0, 0, r)
            /\ UNCHANGED <<Config, ic, race, push, clock, registry, alive, path, ranks>>

\* SwapEntity::upgrade
UpgradeRank ==
    \E e \in alive :
        /\ Idle
        /\ CanUpgrade(Uuid(path[e]))
        /\ ranks' = Upgrade(ranks, Uuid(path[e]))
        /\ last' = Call("upgrade", e, 0, 0,
                         [Ok(Mem) EXCEPT !.ret = Some(UpgradeReturn(ranks, Uuid(path[e])))])
        /\ UNCHANGED <<Config, ic, race, push, clock, registry, alive, path, value, files>>

\* The last Arc of an entity is dropped.
Drop(sound) ==
    \E e \in alive : \E fault \in Env(sound, RemoveFaults(e)) :
        LET r == DropEntity(Mem, e, fault)
        IN  /\ Idle
            /\ alive' = alive \ {e}
            /\ value' = r.m.value
            /\ files' = r.m.files
            /\ last' = Call("drop", e, 0, 0, r)
            /\ UNCHANGED <<Config, ic, race, push, clock, registry, path, ranks>>

\* SwapHandle::collect_garbage
CollectGarbage ==
    /\ Idle
    /\ registry' = SelectSeq(registry, IsLive)
    /\ registry' # registry
    /\ last' = Call("collect_garbage", 0, 0, 0, Ok(Mem))
    /\ UNCHANGED <<Config, ic, race, push, clock, alive, path, value, files, ranks>>

\* SwapHandle::flush
HandleFlush(sound) ==
    \E fault \in Env(sound, FlushFaults) :
        LET r == FlushAll(Mem, LiveEntities, fault)
        IN  /\ Idle
            /\ value' = r.m.value
            /\ files' = r.m.files
            /\ last' = Call("handle_flush", 0, 0, 0, r)
            /\ UNCHANGED <<Config, ic, race, push, clock, registry, alive, path, ranks>>

\* SwapHandle::free, called by the pool's owner
HandleFree(sound) ==
    \E n \in 0 .. MaxFree : \E fault \in Env(sound, FlushFaults) :
        LET r == Free(Mem, ranks, n, fault)
        IN  /\ Idle
            /\ value' = r.m.value
            /\ files' = r.m.files
            /\ last' = Call("free", 0, 0, n, r)
            /\ UNCHANGED <<Config, ic, race, push, clock, registry, alive, path, ranks>>

\* Every call of the API, by any caller, in an environment that may fail.
Next ==
    \/ Return
    \/ Tick
    \/ SpawnNamed(FALSE)
    \/ Value(FALSE)
    \/ ValueUnallocate(FALSE)
    \/ ValueAllocate(FALSE)
    \/ Update(FALSE)
    \/ Replace(FALSE)
    \/ Flush(FALSE)
    \/ UpgradeRank
    \/ Drop(FALSE)
    \/ CollectGarbage
    \/ HandleFlush(FALSE)
    \/ HandleFree(FALSE)

Spec == Init /\ [][Next]_vars

\* The calls of a sound caller in an environment that never fails: spawn_named,
\* value, value_unallocate, value_allocate, update, replace, flush and
\* handle.free.
NextSound ==
    \/ Return
    \/ Tick
    \/ SpawnNamed(TRUE)
    \/ Value(TRUE)
    \/ ValueUnallocate(TRUE)
    \/ ValueAllocate(TRUE)
    \/ Update(TRUE)
    \/ Replace(TRUE)
    \/ Flush(TRUE)
    \/ HandleFree(TRUE)

SpecSound == Init /\ [][NextSound]_vars

\* The calls of a sound caller that check the budget or release memory:
\* spawn_named, value, value_unallocate, update, flush and the drop of an
\* entity.
NextChecked ==
    \/ Return
    \/ Tick
    \/ SpawnNamed(TRUE)
    \/ Value(TRUE)
    \/ ValueUnallocate(TRUE)
    \/ Update(TRUE)
    \/ Flush(TRUE)
    \/ Drop(TRUE)

SpecChecked == Init /\ [][NextChecked]_vars

\* The calls of a caller that lets the pool name the files, in an environment
\* that never fails: spawn, value, value_unallocate, value_allocate, update,
\* replace, flush and the drop of an entity.
NextContent ==
    \/ Return
    \/ Tick
    \/ Spawn
    \/ Value(TRUE)
    \/ ValueUnallocate(TRUE)
    \/ ValueAllocate(TRUE)
    \/ Update(TRUE)
    \/ Replace(TRUE)
    \/ Flush(TRUE)
    \/ Drop(TRUE)

SpecContent == Init /\ [][NextContent]_vars

\* The calls of a sound caller on a pool built with any transformer.
SpecTransformer == InitTransformer /\ [][NextSound]_vars

\* ------------------------------------------- InplaceCell shared by threads

PoolVars ==
    <<thread_safe, manager, allocated, transformer, clock, registry, alive, path,
      value, files, ranks, race, push, last>>

\* InplaceCell::new(value, thread_safe) with a value that is not the default.
InitCell ==
    /\ Built
    /\ transformer = "Identity"
    /\ manager = "LastUse"
    /\ allocated = 0
    /\ \E v \in Values : ic = NewCell(v)
    /\ race = NoRace
    /\ push = NoPush

\* InplaceCell::get_ref: self.value.borrow()
GetRef ==
    \E t \in Threads :
        /\ ic.pc[t] = "idle"
        /\ ic' = [ic EXCEPT !.seen[t] = <<ic.cell>>]
        /\ UNCHANGED PoolVars

\* InplaceCell::get_copy, line 133: let value = self.value.take()
GetCopyTake ==
    \E t \in Threads :
        /\ ic.pc[t] = "idle"
        /\ ic' = [ic EXCEPT !.pc[t] = "copy", !.local[t] = ic.cell, !.cell = Default]
        /\ UNCHANGED PoolVars

\* InplaceCell::get_copy, lines 135-137: self.value.replace(value.clone()); value
GetCopyReplace ==
    \E t \in Threads :
        /\ ic.pc[t] = "copy"
        /\ ic' = [ic EXCEPT !.pc[t] = "idle", !.cell = ic.local[t],
                             !.seen[t] = <<ic.local[t]>>]
        /\ UNCHANGED PoolVars

\* InplaceCell::update_result, line 85: let mut value = self.value.take()
UpdateTake ==
    \E t \in Threads :
        /\ ic.pc[t] = "idle"
        /\ ic' = [ic EXCEPT !.pc[t] = "taken", !.local[t] = ic.cell, !.cell = Default]
        /\ UNCHANGED PoolVars

\* InplaceCell::update_result, lines 87-89:
\* if self.thread_safe { self.value.replace(value.clone()) }
UpdateClone ==
    \E t \in Threads :
        /\ ic.pc[t] = "taken"
        /\ ic' = [ic EXCEPT !.pc[t] = "cloned",
                             !.cell = IF thread_safe THEN ic.local[t] ELSE ic.cell]
        /\ UNCHANGED PoolVars

\* InplaceCell::update_result, lines 91-95: the updater gives the value v and
\* the cell stores it.
UpdateStore ==
    \E t \in Threads, v \in Values :
        /\ ic.pc[t] = "cloned"
        /\ ic' = [ic EXCEPT !.pc[t] = "idle", !.cell = v]
        /\ UNCHANGED PoolVars

\* InplaceCell::update_result, line 91: the updater fails and the ? returns.
UpdateFail ==
    \E t \in Threads :
        /\ ic.pc[t] = "cloned"
        /\ ic' = [ic EXCEPT !.pc[t] = "idle"]
        /\ UNCHANGED PoolVars

NextCell ==
    \/ GetRef
    \/ GetCopyTake
    \/ GetCopyReplace
    \/ UpdateTake
    \/ UpdateClone
    \/ UpdateStore
    \/ UpdateFail

\* Threads that call get_ref, get_copy and update_result on one cell, their
\* steps interleaved.
SpecCell == InitCell /\ [][NextCell]_vars

\* ------------------------------------- flush() and value() on one entity

\* The entity and the path of the two concurrent calls.
RaceEntity == 1
RacePath == "x"

\* A thread safe pool with one live entity, as spawn, flush and value leave
\* it: hot with no file, cold with its file, or hot with the file of an
\* earlier flush.  One thread is about to call flush() on it, another value().
InitRace ==
    /\ thread_safe = TRUE
    /\ manager \in {"LastUse", "UpgradeCount"}
    /\ allocated \in 0 .. MaxBudget
    /\ transformer = "Identity"
    /\ clock = 1
    /\ registry = <<RaceEntity>>
    /\ alive = {RaceEntity}
    /\ path = [e \in Ids |-> IF e = RaceEntity THEN RacePath ELSE NoPath]
    /\ ranks = [p \in Names |-> IF p = RacePath THEN 1 ELSE 0]
    /\ \E v \in Values, hot \in BOOLEAN, file \in BOOLEAN :
          /\ hot \/ file
          /\ value = [e \in Ids |-> IF e = RaceEntity /\ hot THEN Some(v) ELSE None]
          /\ files = [p \in Names |->
                        IF p = RacePath /\ file THEN Some(Serialize(v)) ELSE None]
    /\ ic = NewCell(1)
    /\ last = NoCall
    /\ push = NoPush
    /\ race = [NoRace EXCEPT !.on = TRUE, !.f = "start", !.v = "start",
                              !.init = [value |-> value, files |-> files]]

RaceFrame ==
    <<thread_safe, manager, allocated, transformer, clock, registry, alive, path,
      ic, push, last>>

\* flush -> update_result, line 85: let mut value = self.value.take()
RaceFlushTake ==
    /\ race.f = "start"
    /\ race' = [race EXCEPT !.f = "taken", !.fl = value[RaceEntity]]
    /\ value' = [value EXCEPT ![RaceEntity] = None]
    /\ UNCHANGED <<RaceFrame, files, ranks>>

\* flush -> update_result, lines 87-89: the clone put back
RaceFlushClone ==
    /\ race.f = "taken"
    /\ race' = [race EXCEPT !.f = "cloned"]
    /\ value' = IF thread_safe THEN [value EXCEPT ![RaceEntity] = race.fl] ELSE value
    /\ UNCHANGED <<RaceFrame, files, ranks>>

\* flush's updater, entity.rs lines 238-245
RaceFlushWrite ==
    /\ race.f = "cloned"
    /\ race' = [race EXCEPT !.f = "written", !.fl = None]
    /\ files' = IF race.fl = None THEN files
                ELSE [files EXCEPT ![RacePath] = Some(Serialize(race.fl[1]))]
    /\ UNCHANGED <<RaceFrame, value, ranks>>

\* flush -> update_result, line 93: self.value.replace(value)
RaceFlushStore ==
    /\ race.f = "written"
    /\ race' = [race EXCEPT !.f = "done"]
    /\ value' = [value EXCEPT ![RaceEntity] = race.fl]
    /\ UNCHANGED <<RaceFrame, files, ranks>>

\* value, line 109: self.upgrade()
RaceValueUpgrade ==
    /\ race.v = "start"
    /\ CanUpgrade(Uuid(RacePath))
    /\ race' = [race EXCEPT !.v = "upgraded"]
    /\ ranks' = Upgrade(ranks, Uuid(RacePath))
    /\ UNCHANGED <<RaceFrame, value, files>>

\* value -> update_result, line 85
RaceValueTake ==
    /\ race.v = "upgraded"
    /\ race' = [race EXCEPT !.v = "taken", !.vl = value[RaceEntity]]
    /\ value' = [value EXCEPT ![RaceEntity] = None]
    /\ UNCHANGED <<RaceFrame, files, ranks>>

\* value -> update_result, lines 87-89
RaceValueClone ==
    /\ race.v = "taken"
    /\ race' = [race EXCEPT !.v = "cloned"]
    /\ value' = IF thread_safe THEN [value EXCEPT ![RaceEntity] = race.vl] ELSE value
    /\ UNCHANGED <<RaceFrame, files, ranks>>

\* value's updater, entity.rs lines 112-116: the taken value, or the file's;
\* a file that is not there ends the call with an Io error (inplace_cell.rs
\* line 91) and leaves the cell as it is.
RaceValueLoad ==
    /\ race.v = "cloned"
    /\ LET load == IF race.vl # None THEN [Ok(Mem) EXCEPT !.ret = race.vl]
                   ELSE ReadValue(Mem, RaceEntity, NoFault)
       IN  race' = IF load.ok
                   THEN [race EXCEPT !.v = "loaded", !.vl = None, !.raw = load.ret[1]]
                   ELSE [race EXCEPT !.v = "done", !.ok = FALSE]
    /\ UNCHANGED <<RaceFrame, value, files, ranks>>

\* value's updater, entity.rs lines 119-127: handle.available(), and
\* handle.free(free) when the value does not fit, run in one piece.
RaceValueAdmit ==
    /\ race.v = "loaded"
    /\ LET free == SatSub(SizeOfValue(race.raw), AvailableOf(value))
           f == Free(Mem, ranks, free, NoFault)
       IN  IF free = 0
           THEN /\ race' = [race EXCEPT !.v = "admitted", !.vl = Some(race.raw)]
                /\ UNCHANGED <<value, files>>
           ELSE /\ race' = [race EXCEPT !.v = "admitted",
                                !.vl = IF f.flag THEN Some(race.raw) ELSE None]
                /\ value' = f.m.value
                /\ files' = f.m.files
    /\ UNCHANGED <<RaceFrame, ranks>>

\* value -> update_result, lines 93-95, and entity.rs line 132: Ok(value)
RaceValueStore ==
    /\ race.v = "admitted"
    /\ race' = [race EXCEPT !.v = "done", !.ret = Some(race.raw)]
    /\ value' = [value EXCEPT ![RaceEntity] = race.vl]
    /\ UNCHANGED <<RaceFrame, files, ranks>>

NextRace ==
    \/ RaceFlushTake
    \/ RaceFlushClone
    \/ RaceFlushWrite
    \/ RaceFlushStore
    \/ RaceValueUpgrade
    \/ RaceValueTake
    \/ RaceValueClone
    \/ RaceValueLoad
    \/ RaceValueAdmit
    \/ RaceValueStore

\* A flush() and a value() of two threads on one entity, their steps
\* interleaved as the scheduler likes.
SpecRace == InitRace /\ [][NextRace]_vars

\* What the two calls leave when both have returned: the cell, the file, and
\* what value() returned.
Outcome(m, ok, ret) ==
    [value |-> m.value[RaceEntity], file |-> m.files[RacePath], ok |-> ok, ret |-> ret]
RaceOutcome == Outcome(Mem, race.ok, race.ret)

\* The same two calls one after the other, from the state they started in.
FlushThenValue ==
    LET f == FlushEntity(race.init, RaceEntity, NoFault)
        v == ValueEntity(f.m, ranks, RaceEntity, NoFault)
    IN  Outcome(v.m, v.ok, v.ret)
ValueThenFlush ==
    LET v == ValueEntity(race.init, ranks, RaceEntity, NoFault)
        f == FlushEntity(v.m, RaceEntity, NoFault)
    IN  Outcome(f.m, v.ok, v.ret)

\* ----------------------------------- push_entity and upgrade on two threads

\* The uuid a thread upgrades: that of the entity it pushes, or the one uuid
\* both threads hand to upgrade_entity.
SharedUuid == Uuid("x")
UuidOf(t) == IF push.job = "push" THEN Uuid(path[t]) ELSE SharedUuid

\* A thread safe pool nothing is registered in yet.  Either each thread t holds
\* the entity t that SwapEntity::create has just made for it, hot when its
\* value fits the budget and cold with its file otherwise, and is about to
\* call push_entity; or the pool is empty and both threads are about to call
\* upgrade_entity(SharedUuid).
InitPush ==
    /\ thread_safe = TRUE
    /\ manager \in {"LastUse", "UpgradeCount"}
    /\ allocated \in 0 .. MaxBudget
    /\ transformer = "Identity"
    /\ clock = 1
    /\ registry = <<>>
    /\ ranks = [u \in Names |-> 0]
    /\ ic = NewCell(1)
    /\ race = NoRace
    /\ last = NoCall
    /\ \E job \in {"push", "upgrade"} :
          /\ push = [NoPush EXCEPT !.on = TRUE, !.job = job,
                                   !.pc = [t \in Threads |-> "start"]]
          /\ IF job = "push"
             THEN /\ alive = Threads
                  /\ path = [e \in Ids |-> IF e = 1 THEN "x" ELSE "y"]
                  /\ \E v \in Values :
                        /\ value = [e \in Ids |->
                                      IF v <= allocated THEN Some(v) ELSE None]
                        /\ files = [p \in Names |->
                                      IF v <= allocated THEN None
                                      ELSE Some(Serialize(v))]
             ELSE /\ alive = {}
                  /\ path = [e \in Ids |-> NoPath]
                  /\ value = [e \in Ids |-> None]
                  /\ files = [p \in Names |-> None]

PushFrame ==
    <<thread_safe, manager, allocated, transformer, clock, alive, path, value,
      files, ic, race, last>>

\* push_entity, handle.rs line 34 -> update_result, line 85: the registry taken
PushRegTake ==
    \E t \in Threads :
        /\ push.job = "push"
        /\ push.pc[t] = "start"
        /\ push' = [push EXCEPT !.pc[t] = "reg_taken", !.reg[t] = registry]
        /\ registry' = <<>>
        /\ UNCHANGED <<PushFrame, ranks>>

\* update_result, lines 87-89: the clone of the registry put back
PushRegClone ==
    \E t \in Threads :
        /\ push.pc[t] = "reg_taken"
        /\ push' = [push EXCEPT !.pc[t] = "reg_cloned"]
        /\ registry' = IF thread_safe THEN push.reg[t] ELSE registry
        /\ UNCHANGED <<PushFrame, ranks>>

\* update_result, lines 91-93: entities.push(..) on the taken registry, which
\* then replaces the cell's
PushRegStore ==
    \E t \in Threads :
        /\ push.pc[t] = "reg_cloned"
        /\ push' = [push EXCEPT !.pc[t] = "reg_done"]
        /\ registry' = Append(push.reg[t], t)
        /\ UNCHANGED <<PushFrame, ranks>>

\* SwapManager::upgrade, manager.rs lines 52 and 96 -> update_result, line 85:
\* the rank table taken, an empty HashMap left
PushRankTake ==
    \E t \in Threads :
        /\ push.pc[t] = (IF push.job = "push" THEN "reg_done" ELSE "start")
        /\ push' = [push EXCEPT !.pc[t] = "rank_taken", !.rk[t] = ranks]
        /\ ranks' = [u \in Names |-> 0]
        /\ UNCHANGED <<PushFrame, registry>>

\* update_result, lines 87-89: the clone of the rank table put back
PushRankClone ==
    \E t \in Threads :
        /\ push.pc[t] = "rank_taken"
        /\ push' = [push EXCEPT !.pc[t] = "rank_cloned"]
        /\ ranks' = IF thread_safe THEN push.rk[t] ELSE ranks
        /\ UNCHANGED <<PushFrame, registry>>

\* update_result, lines 91-93: ranks.insert(uuid, rank) on the taken table,
\* which then replaces the cell's
PushRankStore ==
    \E t \in Threads :
        /\ push.pc[t] = "rank_cloned"
        /\ push' = [push EXCEPT !.pc[t] = "done"]
        /\ ranks' = Upgrade(push.rk[t], UuidOf(t))
        /\ UNCHANGED <<PushFrame, registry>>

NextPush ==
    \/ PushRegTake
    \/ PushRegClone
    \/ PushRegStore
    \/ PushRankTake
    \/ PushRankClone
    \/ PushRankStore

\* Two threads that call push_entity, or upgrade_entity, together, their steps
\* interleaved as the scheduler likes.
SpecPush == InitPush /\ [][NextPush]_vars

\* ------------------------------------------------------------- observers

\* SwapEntity::is_hot, SwapEntity::is_cold
IsHot(e) == value[e] # None
IsCold(e) == value[e] = None

\* Path::exists
FileExists(p) == files[p] # None

\* SwapHandle::used and SwapHandle::available, now and before the last call.
Used == UsedOf(value)
Available == AvailableOf(value)
PreUsed == UsedIn(last.pre.value, last.pre.registry, last.pre.alive)
PreAvailable == SatSub(allocated, PreUsed)

\* The value entity e holds with cells val and folder fs: the one in its cell,
\* else the one in its file, else none.
Held(val, fs, e) ==
    IF val[e] # None THEN val[e]
    ELSE IF fs[path[e]] # None THEN Some(Deserialize(fs[path[e]][1]))
    ELSE None
PreHeld(e) == Held(last.pre.value, last.pre.files, e)

\* ------------------------------------------------------------------ claims

\* C1: every live entity is exactly one of hot and cold, and the file of a cold
\* entity exists, after any sequence of spawn_named, value, value_unallocate,
\* value_allocate, update, replace, flush and handle.free by one thread.
C1_ColdHasFile ==
    \A e \in alive :
        /\ IsHot(e) # IsCold(e)
        /\ IsCold(e) => FileExists(path[e])

\* C2: create(v), then flush(), then value() on the same entity returns a value
\* equal to v, for every value and budget, whenever the environment does not
\* make the read fail.
C2_CreateFlushValue ==
    (last.op = "value" /\ last.trail.ops = <<"create", "flush", "value">>
        /\ ~last.injected)
    => (last.ok /\ last.ret = Some(last.trail.v))

\* The value of the largest payload has come back from its file.
C2_Witness ==
    /\ last.op = "value"
    /\ last.trail.ops = <<"create", "flush", "value">>
    /\ last.trail.v = MaxValue
    /\ last.pre.value[last.e] = None
    /\ last.pre.files[path[last.e]] = Some(Serialize(MaxValue))
    /\ last.ok
    /\ last.ret = Some(MaxValue)

\* C3: with spawn, value, value_unallocate, update, flush and drop only, used()
\* is at most the budget after every completed operation.
C3_UsedWithinBudget == Used <= allocated

\* C4: create makes the entity cold, with the serialized value written to its
\* path, when the value's size exceeds available() at creation; otherwise it
\* makes the entity hot and writes no file.
C4_CreateAdmission ==
    (last.op = "spawn_named" /\ last.ok)
    => IF SizeOfValue(last.v) > PreAvailable
       THEN /\ IsCold(last.e)
            /\ files = [last.pre.files EXCEPT ![path[last.e]] = Some(Serialize(last.v))]
       ELSE /\ value[last.e] = Some(last.v)
            /\ files = last.pre.files

\* A value that the budget alone would hold is created cold because another
\* entity is hot.
C4_Witness ==
    /\ last.op = "spawn_named"
    /\ last.ok
    /\ SizeOfValue(last.v) <= allocated
    /\ SizeOfValue(last.v) > PreAvailable
    /\ IsCold(last.e)
    /\ FileExists(path[last.e])

\* The scenario of C5: the entity just spawned fits the budget alone but not
\* beside e1, the only hot entity before the spawn.
C5_Scenario(e1) ==
    /\ last.op = "spawn_named"
    /\ last.ok
    /\ e1 \in last.pre.alive
    /\ path[e1] # path[last.e]
    /\ last.pre.value[e1] # None
    /\ \A o \in last.pre.alive \ {e1} : last.pre.value[o] = None
    /\ SizeOfValue(last.v) <= allocated
    /\ SizeOfValue(last.v) > PreAvailable

\* C5 as the specification states it: after the spawn V1 is cold with its file
\* on disk, V2 is hot, and used() is the size charged for V2.
C5_SpawnEvicts ==
    \A e1 \in Ids :
        C5_Scenario(e1)
        => /\ IsCold(e1)
           /\ FileExists(path[e1])
           /\ IsHot(last.e)
           /\ Used = EntitySize(value, last.e)

\* C5, amended: the spawn flushes nothing.  V1 is still hot with its value, V2
\* is cold with its serialized value in its file, and used() is unchanged: the
\* size charged for V1.
C5_SpawnGoesCold ==
    \A e1 \in Ids :
        C5_Scenario(e1)
        => /\ value[e1] = last.pre.value[e1]
           /\ IsCold(last.e)
           /\ files[path[last.e]] = Some(Serialize(last.v))
           /\ Used = PreUsed
           /\ Used = EntitySize(value, e1)

\* V2 has been spawned beside a hot V1 under another name.
C5_Witness ==
    \E e1 \in Ids :
        /\ C5_Scenario(e1)
        /\ last.v = MaxValue
        /\ IsHot(e1)
        /\ IsCold(last.e)

\* C6: value() returns the entity's current value, from memory if it was hot
\* and from the file if it was cold.  Afterwards the entity is hot with that
\* value, or else cold with a file that still holds it; it is hot whenever the
\* value's size did not exceed available().  In both cell modes.
C6_ValueKeepsValue ==
    (last.op = "value" /\ last.ok)
    => /\ last.ret # None
       /\ last.ret = PreHeld(last.e)
       /\ \/ value[last.e] = last.ret
          \/ /\ IsCold(last.e)
             /\ files[path[last.e]] = Some(Serialize(last.ret[1]))
       /\ SizeOfValue(last.ret[1]) <= PreAvailable => IsHot(last.e)

\* C7: value_unallocate() on a hot entity returns its value and leaves it cold,
\* with its file present and nothing charged for its payload; on a cold entity
\* it returns the value read from the file and changes nothing.
C7_ValueUnallocate ==
    (last.op = "value_unallocate" /\ last.ok)
    => IF last.pre.value[last.e] # None
       THEN /\ last.ret = last.pre.value[last.e]
            /\ IsCold(last.e)
            /\ FileExists(path[last.e])
            /\ Used = PreUsed - EntitySize(last.pre.value, last.e)
       ELSE /\ last.ret = PreHeld(last.e)
            /\ value = last.pre.value
            /\ files = last.pre.files

\* C8: after an update that returned Ok(false) the entity is cold and its file
\* exists, holding the value the entity had before the call.
C8_FailedUpdate ==
    (last.op = "update" /\ last.ok /\ ~last.flag)
    => /\ IsCold(last.e)
       /\ FileExists(path[last.e])
       /\ Held(value, files, last.e) = PreHeld(last.e)

\* C9: update(v') on a hot entity holding v, with the size of v' at most the
\* size of v, returns true and leaves the entity hot with v' and no file.
C9_UpdateNotLarger ==
    (/\ last.op = "update"
     /\ last.pre.value[last.e] # None
     /\ SizeOfValue(last.v) <= SizeOfValue(last.pre.value[last.e][1]))
    => /\ last.ok
       /\ last.flag
       /\ value[last.e] = Some(last.v)
       /\ ~FileExists(path[last.e])

\* C10: when the serialization or the write of a flush of a hot entity fails,
\* the flush returns the error and the entity is still hot with its value, in
\* both cell modes.
C10_FailedFlush ==
    (last.op = "flush" /\ last.pre.value[last.e] # None /\ last.injected)
    => /\ ~last.ok
       /\ value[last.e] = last.pre.value[last.e]

\* C11 as the specification states it: after any handle.free(n) that returned
\* true, used() is at most the budget, for every n and every prior state.
C11_FreeRestoresBudget ==
    (last.op = "free" /\ last.ok /\ last.flag) => Used <= allocated

\* C11, amended: after any handle.free(n) that returned true, used() has gone
\* down by at least n, so that used() is at most the budget whenever it was at
\* most the budget plus n before the call.
C11_FreeReclaims ==
    (last.op = "free" /\ last.ok /\ last.flag)
    => /\ Used + last.n <= PreUsed
       /\ PreUsed <= allocated + last.n => Used <= allocated

\* handle.free(MaxFree) has returned true and has flushed an entity.
C11_Witness ==
    /\ last.op = "free"
    /\ last.ok
    /\ last.flag
    /\ last.n = MaxFree
    /\ \E e \in alive : last.pre.value[e] # None /\ IsCold(e)

\* The sum of size_of over a set of entities, each counted once.
RECURSIVE SizeOfAll(_)
SizeOfAll(S) ==
    IF S = {} THEN 0
    ELSE LET e == CHOOSE x \in S : TRUE
         IN  EntitySize(value, e) + SizeOfAll(S \ {e})

\* C12: used() is the sum of size_of over exactly the entities that are alive
\* and hot, each counted once, whether or not collect_garbage has run; and
\* available() is budget - used() when used() <= budget, and 0 otherwise.
C12_UsedIsSumOfHot ==
    /\ Used = SizeOfAll({e \in alive : IsHot(e)})
    /\ Available = IF Used <= allocated THEN allocated - Used ELSE 0

\* A dropped entity is still registered beside a hot one, and the pool is over
\* its budget.
C12_Witness ==
    /\ \E i \in 1 .. Len(registry) : registry[i] \notin alive
    /\ \E e \in alive : IsHot(e) /\ Used = EntitySize(value, e)
    /\ Used > allocated
    /\ Available = 0

\* C13 as the specification states it: the drop of an entity never raises an
\* error, and after it no file exists at the entity's path.
C13_DropRemovesFile ==
    last.op = "drop" => (last.ok /\ ~FileExists(path[last.e]))

\* C13, amended: the drop never raises an error, and after it no file exists
\* at the entity's path unless the removal of the file itself failed: that
\* error is swallowed and the file stays.
C13_DropRemovesFileIfItCan ==
    last.op = "drop"
    => /\ last.ok
       /\ last.e \notin alive
       /\ ~last.injected => ~FileExists(path[last.e])
       /\ last.injected => files = last.pre.files

\* An entity whose file was on disk has been dropped, and the file is gone.
C13_Witness ==
    /\ last.op = "drop"
    /\ last.pre.files[path[last.e]] # None
    /\ ~FileExists(path[last.e])

\* C14: no two live entities of a pool share a backing-file path, no spawn
\* overwrites the file of another live entity and no drop deletes it, also
\* when spawn(value) is called twice with equal values.
C14_PathsAreUnique ==
    /\ \A a, b \in alive : a # b => path[a] # path[b]
    /\ last.op \in {"spawn", "drop"}
       => \A o \in alive \ {last.e} : files[path[o]] = last.pre.files[path[o]]

\* C15: whenever an entity has written its backing file (create in the cold
\* case, flush, eviction by free), the file holds
\* transformer.forward(serialize(value)): every file on disk is the
\* transformed serialization of a value.
C15_FileIsTransformed ==
    \A p \in Names :
        FileExists(p)
        => \E v \in Values : files[p] = Some(Forward(transformer, Serialize(v)))

\* The call that has just returned called SwapManager::upgrade(u): spawn and
\* spawn_named (through push_entity), value, value_allocate and upgrade do.
Upgraded(u) ==
    /\ last.op \in {"spawn_named", "spawn", "value", "value_allocate", "upgrade"}
    /\ Uuid(path[last.e]) = u

\* C16: for both policies and every uuid u, rank(u) is 0 while upgrade(u) has
\* never been called, and after upgrade(u) has returned r, rank(u) is at least
\* r until the next upgrade of u: the rank is 0 at first, no call but an
\* upgrade of u changes it, and an upgrade of u leaves it at least what it
\* returned.
C16_RankFollowsUpgrade ==
    /\ \A u \in Names : Rank(ranks, u) = 0
    /\ [][\A u \in Names :
            /\ ~Upgraded(u)' => Rank(ranks', u) = Rank(ranks, u)
            /\ (last'.op = "upgrade" /\ Uuid(path'[last'.e]) = u)
               => Rank(ranks', u) >= last'.ret[1]]_vars

\* upgrade(u) has returned the largest rank, and rank(u) is that rank.
C16_Witness ==
    /\ last.op = "upgrade"
    /\ last.ret = Some(MaxRank)
    /\ Rank(ranks, Uuid(path[last.e])) = MaxRank

\* C17: with a thread safe InplaceCell that holds a value other than the
\* default, no get_ref and no get_copy that runs beside an update_result or
\* beside another thread's get_copy gives the default value.
C17_NeverSeesDefault ==
    thread_safe => \A t \in Threads : ic.seen[t] # <<Default>>

\* C18: in a thread safe pool, when a flush() and a value() issued together on
\* one entity have both returned, the entity's cell, its file and the value
\* returned are those of flush-then-value or those of value-then-flush.
C18_FlushValueSerial ==
    (race.on /\ race.f = "done" /\ race.v = "done")
        => RaceOutcome \in {FlushThenValue, ValueThenFlush}

\* C19: flush is idempotent.  After a flush() that returned Ok, a further
\* flush() returns Ok and leaves every cell and every file as they are, whatever
\* the environment would make fail; and a flush() of an entity that was already
\* cold has changed no cell and no file, so it has written nothing.
C19_FlushIdempotent ==
    (last.op = "flush" /\ last.ok)
    => /\ \A fault \in {NoFault} \cup FlushFaults :
             FlushEntity(Mem, last.e, fault) = Ok(Mem)
       /\ last.pre.value[last.e] = None
             => (value = last.pre.value /\ files = last.pre.files)

\* flush() of an entity that an earlier flush had made cold has returned, and
\* so has flush() of a hot one.
C19_Witness ==
    /\ last.op = "flush"
    /\ last.ok
    /\ last.pre.value[last.e] = None
    /\ last.pre.files[path[last.e]] # None
    /\ \E e \in alive \ {last.e} : IsHot(e)

\* C20: handle.free(n) evicts in ascending order of the ranks the entities had
\* when it was called: when it has returned, with Ok or with an error, no live
\* entity b that it flushed has a rank above that of a live entity a that was
\* hot when it was called and still is.
C20_FreeAscending ==
    last.op = "free"
    => ~ \E a \in alive, b \in alive :
            /\ Rank(last.pre.ranks, Uuid(path[a])) < Rank(last.pre.ranks, Uuid(path[b]))
            /\ last.pre.value[b] # None /\ IsCold(b)
            /\ last.pre.value[a] # None /\ IsHot(a)

\* free(n) has flushed the lower ranked of two hot entities and has left the
\* higher ranked one hot.
C20_Witness ==
    /\ last.op = "free"
    /\ last.ok
    /\ \E a \in alive, b \in alive :
          /\ Rank(last.pre.ranks, Uuid(path[a])) < Rank(last.pre.ranks, Uuid(path[b]))
          /\ last.pre.value[a] # None /\ IsCold(a)
          /\ last.pre.value[b] # None /\ IsHot(b)

\* The entities the last call flushed, and what free counts as reclaimed for a
\* set of them: size - entity.size_of() of handle.rs line 156, the payload.
FlushedByCall == {e \in alive : last.pre.value[e] # None /\ IsCold(e)}
RECURSIVE Reclaimed(_)
Reclaimed(S) ==
    IF S = {} THEN 0
    ELSE LET e == CHOOSE x \in S : TRUE
         IN  (EntitySize(last.pre.value, e) - EntitySize(value, e)) + Reclaimed(S \ {e})

\* C21: handle.free(n) returns Ok(false) only when what it reclaimed is less
\* than n, and then every live entity is cold.
C21_FreeFalse ==
    (last.op = "free" /\ last.ok /\ ~last.flag)
    => /\ Reclaimed(FlushedByCall) < last.n
       /\ \A e \in alive : IsCold(e)

\* free(n) has flushed a hot entity and returned Ok(false).
C21_Witness ==
    /\ last.op = "free"
    /\ last.ok
    /\ ~last.flag
    /\ FlushedByCall # {}

\* The order in which the last free took the entities, first taken first:
\* the sorted list of handle.rs line 139, read from its end.
FreeOrder ==
    LET sorted == SortByRank(last.pre.ranks, <<>>, LiveEntities)
    IN  [i \in 1 .. Len(sorted) |-> sorted[Len(sorted) + 1 - i]]

\* C22: handle.free(n) stops as soon as what it has reclaimed reaches n: every
\* entity it flushed was taken while the entities flushed before it had
\* reclaimed less than n; free(0) returns true and changes no cell and no
\* file; and the file of an entity that was already cold is as it was, unless
\* it is also the file of an entity the call flushed.
C22_FreeStops ==
    last.op = "free"
    => /\ \A i \in 1 .. Len(FreeOrder) :
             FreeOrder[i] \in FlushedByCall
             => Reclaimed({FreeOrder[j] : j \in 1 .. (i - 1)} \cap FlushedByCall)
                    < last.n
       /\ last.n = 0
             => (last.ok /\ last.flag /\ value = last.pre.value
                 /\ files = last.pre.files)
       /\ \A e \in alive :
             (/\ last.pre.value[e] = None
              /\ \A b \in FlushedByCall : path[b] # path[e])
             => files[path[e]] = last.pre.files[path[e]]

\* free(n) has reclaimed n by flushing one entity and has left another one
\* hot.
C22_Witness ==
    /\ last.op = "free"
    /\ last.ok
    /\ last.flag
    /\ last.n > 0
    /\ FlushedByCall # {}
    /\ \E e \in alive : IsHot(e)

\* C23: spawning an entity leaves every entity that was already in the pool as
\* it was: its cell, hot or cold, and its backing file.
C23_SpawnTouchesNoOther ==
    (last.op \in {"spawn", "spawn_named"} /\ last.ok)
    => \A e \in last.pre.alive :
          /\ value[e] = last.pre.value[e]
          /\ files[path[e]] = last.pre.files[path[e]]

\* C24: under the upgrade-count policy the rank of an entity is 1 + the number
\* of value(), value_allocate() and upgrade() calls made on it: a spawn
\* leaves the new entity at rank 1, each of these three calls adds 1 to the
\* rank of its entity and leaves the other ranks alone, and no other call
\* changes a rank.
C24_RankCountsUpgrades ==
    (manager = "UpgradeCount" /\ last.op # "idle")
    => IF last.op \in {"spawn", "spawn_named"}
       THEN last.ok => Rank(ranks, Uuid(path[last.e])) = 1
       ELSE IF last.op \in {"value", "value_allocate", "upgrade"}
       THEN \A u \in Names :
               Rank(ranks, u) = Rank(last.pre.ranks, u)
                                + (IF u = Uuid(path[last.e]) THEN 1 ELSE 0)
       ELSE ranks = last.pre.ranks

\* The memory the last call started from, and what value() or update() makes
\* of it when the environment fails the given step.
PreMem == [value |-> last.pre.value, files |-> last.pre.files]
Replay(fault) ==
    IF last.op = "value" THEN ValueEntity(PreMem, ranks, last.e, fault)
    ELSE UpdateEntity(PreMem, ranks, last.e, last.v, fault)

\* The last call was a value() or an update() in whose eviction pass
\* (handle.free) the flush of the entity at fault's path failed: not the
\* self.flush() that update starts with.
FailedInEviction(fault) ==
    /\ last.op \in {"value", "update"}
    /\ fault \in FlushFaults
    /\ last.injected
    /\ Replay(fault).injected
    /\ Replay(fault).m = Mem
    /\ Replay(fault).err = last.err
    /\ last.op = "update" => FlushEntity(PreMem, last.e, fault).ok

\* C25: when a flush fails in the eviction pass of a value() or an update() on
\* entity A, the call returns the error, the entities the pass had flushed are
\* cold with their files, the entity whose flush failed is still hot, and A is
\* as it was before the call: hot with its value, or cold with its file.
C25_FailedEviction ==
    \A fault \in FlushFaults :
        FailedInEviction(fault)
        => /\ ~last.ok
           /\ \A e \in FlushedByCall :
                 path[e] # fault[2]
                 => files[path[e]] = Some(Serialize(last.pre.value[e][1]))
           /\ \A e \in alive :
                 (path[e] = fault[2] /\ last.pre.value[e] # None) => IsHot(e)
           /\ value[last.e] = last.pre.value[last.e]
           /\ last.pre.value[last.e] = None
                 => files[path[last.e]] = last.pre.files[path[last.e]]

\* C26: in a thread safe pool no update of two concurrent calls is lost: when
\* two concurrent push_entity calls have returned, both entities are in the
\* registry and used() counts the hot ones; when two concurrent upgrades of one
\* uuid have returned under the upgrade-count policy, its rank has gone up by 2.
C26_NoLostUpdate ==
    (push.on /\ \A t \in Threads : push.pc[t] = "done")
    => IF push.job = "push"
       THEN /\ \A e \in alive : \E i \in 1 .. Len(registry) : registry[i] = e
            /\ Used = SizeOfAll({e \in alive : IsHot(e)})
       ELSE manager = "UpgradeCount" => Rank(ranks, SharedUuid) = 2

\* C27: no stored value is lost.  After every call of a sound caller in an
\* environment that never fails, each live entity holds, in its cell or in its
\* file, the value most recently stored in it: the value of the call when the
\* call is its spawn, its replace or an update of it that returned true, and
\* the value it held before the call otherwise; and a value() on it has
\* succeeded and returned the value it held.
C27_NoValueLost ==
    last.op # "idle"
    => /\ \A e \in alive :
             Held(value, files, e) =
                 IF e = last.e /\ (\/ last.op \in {"spawn_named", "replace"}
                                   \/ last.op = "update" /\ last.ok /\ last.flag)
                 THEN Some(last.v)
                 ELSE PreHeld(e)
       /\ last.op = "value" => (last.ok /\ last.ret = PreHeld(last.e))

\* C28: value() on an entity that is hot changes nothing but its rank: every
\* cell and every file is as before, so that no entity was flushed and no
\* file written, and used() is what it was, whatever available() was.
C28_ValueOnHot ==
    (last.op = "value" /\ last.pre.value[last.e] # None)
    => /\ value = last.pre.value
       /\ files = last.pre.files
       /\ Used = PreUsed

\* C29: whenever update returns Ok(false), every live entity, the updated one
\* included, is cold and used() is 0: the eviction pass has flushed all that
\* was hot and nothing is rolled back.
C29_FailedUpdateEvictsAll ==
    (last.op = "update" /\ last.ok /\ ~last.flag)
    => /\ \A e \in alive : IsCold(e)
       /\ Used = 0

\* update has returned Ok(false) after it flushed the updated entity and
\* another entity that was hot.
C29_Witness ==
    /\ last.op = "update"
    /\ last.ok
    /\ ~last.flag
    /\ last.e \in FlushedByCall
    /\ \E e \in FlushedByCall : e # last.e /\ path[e] # path[last.e]

====
